---- MODULE Spec2Model ----
(***************************************************************************)
(* Model of passport-google-oidc-token (src/src/index.ts): the strategy    *)
(* instance built by the constructor, the token lookup, the profile        *)
(* mapping and the authenticate pipeline with its three outcome handlers.  *)
(*                                                                         *)
(* JavaScript values are modelled as strings: "undefined", "null",         *)
(* "false", "true", "" (the empty string) and names of objects such as     *)
(* "user1" or "err1".  Truthy is JavaScript's ToBoolean on that encoding.  *)
(***************************************************************************)
EXTENDS Integers, Sequences, FiniteSets, TLC

\* ------------------------------------------------------------------ bounds

\* Most calls of the completion callback one attempt's verification function
\* makes (synchronously and later, together).
MaxDone == 2

\* The attempts of the model; the sequential specification runs the first.
AttemptIds == {"a1", "a2"}

SeqAttempts == {"a1"}

\* -------------------------------------------------------------- JS values

UNDEFINED == "undefined"

NULL == "null"

\* ToBoolean: undefined, null, false, "" and 0 are falsy, the rest truthy.
Truthy(v) == v \notin {"undefined", "null", "false", "", "0"}

\* x || y
Or(x, y) == IF Truthy(x) THEN x ELSE y

\* A container of a request (body, query, headers): a missing one is
\* undefined or null, a present one maps field names to values.
Container(kind, idToken, sub) ==
  [kind |-> kind, fields |-> [id_token |-> idToken, sub |-> sub]]

NoContainer == Container("undefined", UNDEFINED, UNDEFINED)

\* c && c[field]: the falsy container itself, or the field's value.
Guarded(c, field) == IF c.kind = "object" THEN c.fields[field] ELSE c.kind

\* The requests: an object with its three containers, or a value on which
\* reading .body throws (undefined, or an object whose accessor throws).
Request(kind, body, query, headers) ==
  [kind |-> kind, body |-> body, query |-> query, headers |-> headers]

UndefinedRequest == Request("undefined", NoContainer, NoContainer, NoContainer)

ThrowingRequest == Request("throwingAccessor", NoContainer, NoContainer, NoContainer)

\* Reading req.body (req.query, req.headers) throws.
LookupThrows(r) == r.kind # "object"

\* A mutation of lookup: headers are consulted before the body.
lookupHeadersFirst(r, field) ==
  Or(Or(Guarded(r.headers, field), Guarded(r.query, field)),
     Guarded(r.body, field))

\* A mutation of lookup: the chain is joined by ??, which skips only
\* undefined and null.
lookupNullish(r, field) ==
  LET Nn(x, y) == IF x \in {"undefined", "null"} THEN y ELSE x
  IN  Nn(Nn(Guarded(r.body, field), Guarded(r.query, field)),
         Guarded(r.headers, field))

\* lookup(req, field) of the strategy, for a request it does not throw on.
lookup(r, field) ==
  Or(Or(Guarded(r.body, field), Guarded(r.query, field)),
     Guarded(r.headers, field))

\* ---------------------------------------------------------------- profile

\* The claims payload the engine returns (TokenPayload).
Payload(sub, name, family, given, email, verified, picture) ==
  [sub |-> sub, name |-> name, family_name |-> family, given_name |-> given,
   email |-> email, email_verified |-> verified, picture |-> picture]

\* A mutation of parseProfile: the emails list always gets its entry, also
\* when there is no email claim.
parseProfileEmailAlways(payload) ==
  [provider    |-> "google",
   id          |-> payload.sub,
   displayName |-> Or(payload.name, ""),
   name        |-> IF Truthy(payload.family_name) \/ Truthy(payload.given_name)
                   THEN [defined    |-> TRUE,
                         familyName |-> payload.family_name,
                         givenName  |-> payload.given_name]
                   ELSE [defined |-> FALSE],
   photos      |-> IF Truthy(payload.picture)
                   THEN << [value |-> payload.picture] >>
                   ELSE << >>,
   emails      |-> << [value    |-> payload.email,
                       verified |-> payload.email_verified] >>,
   _json       |-> payload]

\* A mutation of parseProfile: the structured name is set only when both the
\* family name and the given name are there (&& instead of ||).
parseProfileNameBoth(payload) ==
  [provider    |-> "google",
   id          |-> payload.sub,
   displayName |-> Or(payload.name, ""),
   name        |-> IF Truthy(payload.family_name) /\ Truthy(payload.given_name)
                   THEN [defined    |-> TRUE,
                         familyName |-> payload.family_name,
                         givenName  |-> payload.given_name]
                   ELSE [defined |-> FALSE],
   photos      |-> IF Truthy(payload.picture)
                   THEN << [value |-> payload.picture] >>
                   ELSE << >>,
   emails      |-> IF Truthy(payload.email)
                   THEN << [value    |-> payload.email,
                            verified |-> payload.email_verified] >>
                   ELSE << >>,
   _json       |-> payload]

\* parseProfile(payload)
parseProfile(payload) ==
  [provider    |-> "google",
   id          |-> payload.sub,
   displayName |-> Or(payload.name, ""),
   name        |-> IF Truthy(payload.family_name) \/ Truthy(payload.given_name)
                   THEN [defined    |-> TRUE,
                         familyName |-> payload.family_name,
                         givenName  |-> payload.given_name]
                   ELSE [defined |-> FALSE],
   photos      |-> IF Truthy(payload.picture)
                   THEN << [value |-> payload.picture] >>
                   ELSE << >>,
   emails      |-> IF Truthy(payload.email)
                   THEN << [value    |-> payload.email,
                            verified |-> payload.email_verified] >>
                   ELSE << >>,
   _json       |-> payload]

\* ------------------------------------------------------------- the inputs

\* The options the strategy is constructed with: a client id, and the
\* passReqToCallback key either absent or present with a value.
Options(clientID, hasFlag, flag) ==
  [clientID |-> clientID, hasFlag |-> hasFlag, passReqToCallback |-> flag]

OptionsSet ==
  { Options("client1", FALSE, UNDEFINED),
    Options("client1", TRUE, "true"),
    Options("client2", TRUE, "false") }

\* The handlers a host assigns to the error, fail and success fields: the
\* constructor's no-op, a host handler, and a host handler that throws.
HandlerIds == {"noop", "h1", "hThrow"}

HandlerThrows(h) == h = "hThrow"

\* The handler sets a host registers on the instance.
HostHandlers ==
  { [error |-> "h1", fail |-> "h1", success |-> "h1"],
    [error |-> "hThrow", fail |-> "h1", success |-> "h1"],
    [error |-> "h1", fail |-> "h1", success |-> "hThrow"] }

HandlerError == "handlerErr"

\* What a throwing verification function throws.
VerifyError == "verifyErr"

\* Every request the token lookup is run on: the two it throws on, and the
\* objects whose three containers are each missing (undefined, null) or
\* hold id_token as undefined, "" or a token of their own.
Containers(tok) ==
  { Container("undefined", UNDEFINED, UNDEFINED),
    Container("null", UNDEFINED, UNDEFINED),
    Container("object", UNDEFINED, UNDEFINED),
    Container("object", "", UNDEFINED),
    Container("object", tok, "forged") }

AllRequests ==
  { Request("object", b, q, h) :
      b \in Containers("tokB"), q \in Containers("tokQ"),
      h \in Containers("tokH") }
  \cup {UndefinedRequest, ThrowingRequest}

\* The requests of the pipeline's specification.
PipelineRequests ==
  { UndefinedRequest, ThrowingRequest,
    Request("object", Container("object", "tokB", "forged"),
            Container("object", "tokQ", "forged"),
            Container("object", "tokH", "forged")),
    Request("object", NoContainer, Container("object", "", UNDEFINED),
            Container("object", UNDEFINED, UNDEFINED)) }

\* The claims the engine returns in the pipeline's specification.
PipelinePayloads ==
  { Payload("sub1", "Ann Lee", "Lee", "Ann", "ann@x", "true", "pic1"),
    Payload("sub2", UNDEFINED, UNDEFINED, UNDEFINED, UNDEFINED, UNDEFINED,
            UNDEFINED) }

NoPayload == Payload(UNDEFINED, UNDEFINED, UNDEFINED, UNDEFINED, UNDEFINED,
                     UNDEFINED, UNDEFINED)

\* How the engine's verifyIdToken call settles: a ticket with claims, a
\* ticket whose getPayload() is undefined, or a rejection with a cause.
EngineResult(kind, payload, cause) ==
  [kind |-> kind, payload |-> payload, cause |-> cause]

EngineResults ==
  { EngineResult("payload", p, "none") : p \in PipelinePayloads }
  \cup { EngineResult("nopayload", NoPayload, "none"),
         EngineResult("reject", NoPayload, "engineErr") }

NoResult == EngineResult("none", NoPayload, "none")

\* The arguments of one call of the completion callback.
DoneArgs ==
  [error : {NULL, "err1"}, user : {"false", UNDEFINED, "user1"},
   info : {UNDEFINED, "info1"}]

\* Sequences over S of length at most n.
SeqUpTo(S, n) == UNION { [1..k -> S] : k \in 0..n }

\* What the verification function does while it runs: the calls of done it
\* makes before it returns, and whether it then throws.
VerifyPlans == [dones : SeqUpTo(DoneArgs, MaxDone), throws : BOOLEAN]

\* ---------------------------------------------------------------- the state

VARIABLES
  options,             \* the constructor's options argument
  clientId,            \* this.clientId
  _passReqToCallback,  \* this._passReqToCallback
  _verify,             \* this._verify
  error,               \* this.error
  fail,                \* this.fail
  success,             \* this.success
  pc,                  \* per attempt: "idle", "awaiting" (the engine), "done"
  req,                 \* per attempt: the request authenticate was called with
  engineCalls,         \* per attempt: the verifyIdToken calls made
  engineResult,        \* per attempt: how the engine call settled
  verifyCalls,         \* per attempt: the argument lists _verify was called with
  handlerCalls,        \* per attempt: the outcome handler invocations, in order
  promise,             \* per attempt: the promise authenticate returned
  rejection,           \* per attempt: what a rejected promise was rejected with
  escaped,             \* per attempt: a handler threw out of a later done call
  doneCalls,           \* per attempt: the calls of done made, with their arguments
  thrown,              \* per attempt: what the try block threw ("none": nothing)
  handlersAtCall       \* per attempt: the handler fields when authenticate was called

instance == <<options, clientId, _passReqToCallback, _verify>>

handlers == <<error, fail, success>>

vars == <<options, clientId, _passReqToCallback, _verify, error, fail, success,
          pc, req, engineCalls, engineResult, verifyCalls, handlerCalls,
          promise, rejection, escaped, doneCalls, thrown, handlersAtCall>>

\* The stand-in tokens of authenticate.
accessToken == "123"

refreshToken == "234"

\* A mutation of the constructor: the option is not read and the flag is
\* always false.
ConstructFlagIgnored(o) == "false"

\* The constructor's 'passReqToCallback' in options ? ... : false
ConstructFlag(o) == IF o.hasFlag THEN o.passReqToCallback ELSE "false"

\* The three handler fields of the instance as they are now.
HandlerFields == [error |-> error, fail |-> fail, success |-> success]

\* The state after new GoogleOIDCTokenStrategy(options, verify): the three
\* handler fields hold the class's no-op initialisers.
Init ==
  /\ options \in OptionsSet
  /\ clientId = options.clientID
  /\ _passReqToCallback = ConstructFlag(options)
  /\ _verify = "verifyFn"
  /\ error = "noop"
  /\ fail = "noop"
  /\ success = "noop"
  /\ pc = [a \in AttemptIds |-> "idle"]
  /\ req = [a \in AttemptIds |-> UndefinedRequest]
  /\ engineCalls = [a \in AttemptIds |-> << >>]
  /\ engineResult = [a \in AttemptIds |-> NoResult]
  /\ verifyCalls = [a \in AttemptIds |-> << >>]
  /\ handlerCalls = [a \in AttemptIds |-> << >>]
  /\ promise = [a \in AttemptIds |-> "none"]
  /\ rejection = [a \in AttemptIds |-> "none"]
  /\ escaped = [a \in AttemptIds |-> FALSE]
  /\ doneCalls = [a \in AttemptIds |-> << >>]
  /\ thrown = [a \in AttemptIds |-> "none"]
  /\ handlersAtCall = [a \in AttemptIds |-> HandlerFields]

\* -------------------------------------------------------------- the actions

\* One invocation of an outcome handler: the field it was read from, the
\* handler found there, its arguments, and whether the completion callback
\* ("done", with the arguments of that call) or the catch clause made it.
HandlerCall(kind, handler, args, by, done) ==
  [kind |-> kind, handler |-> handler, args |-> args, by |-> by, done |-> done]

\* A mutation of verifiedFunction: the user is rejected only when it is
\* exactly false (user === false instead of !user).
verifiedFunctionStrict(d) ==
  IF Truthy(d.error)
  THEN HandlerCall("error", error, <<d.error>>, "done", <<d>>)
  ELSE IF d.user = "false"
       THEN HandlerCall("fail", fail, <<d.info>>, "done", <<d>>)
       ELSE HandlerCall("success", success, <<d.user, d.info>>, "done", <<d>>)

\* The completion callback handed to _verify (verifiedFunction): the handler
\* invocation a call done(d.error, d.user, d.info) makes, with the handlers
\* the fields hold when it is called.
verifiedFunction(d) ==
  IF Truthy(d.error)
  THEN HandlerCall("error", error, <<d.error>>, "done", <<d>>)
  ELSE IF ~Truthy(d.user)
       THEN HandlerCall("fail", fail, <<d.info>>, "done", <<d>>)
       ELSE HandlerCall("success", success, <<d.user, d.info>>, "done", <<d>>)

\* A mutation of the catch clause: the failure is reported as a rejection,
\* this.fail(err).
catchClauseFail(err) == HandlerCall("fail", fail, <<err>>, "catch", << >>)

\* The catch clause: this.error(err).
catchClause(err) == HandlerCall("error", error, <<err>>, "catch", << >>)

\* A mutation of the argument list: the two stand-in tokens change places.
verifyArgsSwapped(r, profile) ==
  IF Truthy(_passReqToCallback)
  THEN <<r, refreshToken, accessToken, profile, "verifiedFunction">>
  ELSE <<refreshToken, accessToken, profile, "verifiedFunction">>

\* A mutation of the argument list: a sub field of the request body is
\* trusted as the subject of the profile.
verifyArgsForged(r, profile) ==
  LET forged == [profile EXCEPT !.id = Or(Guarded(r.body, "sub"), @)]
  IN  IF Truthy(_passReqToCallback)
      THEN <<r, accessToken, refreshToken, forged, "verifiedFunction">>
      ELSE <<accessToken, refreshToken, forged, "verifiedFunction">>

\* A mutation of the argument list: the request is kept on the instance by
\* the first attempt and every attempt passes that one.
verifyArgsFirstRequest(r, profile) ==
  IF Truthy(_passReqToCallback)
  THEN <<req["a1"], accessToken, refreshToken, profile, "verifiedFunction">>
  ELSE <<accessToken, refreshToken, profile, "verifiedFunction">>

\* The argument list _verify is called with.
verifyArgs(r, profile) ==
  IF Truthy(_passReqToCallback)
  THEN <<r, accessToken, refreshToken, profile, "verifiedFunction">>
  ELSE <<accessToken, refreshToken, profile, "verifiedFunction">>

\* A mutation of the completion callback: an 'already reported' latch, only
\* the first call of done reaching a handler.
syncDonesOnce(ds) ==
  IF ds = << >>
  THEN [calls |-> << >>, thrown |-> "none"]
  ELSE LET c == verifiedFunction(ds[1])
       IN  [calls  |-> <<c>>,
            thrown |-> IF HandlerThrows(c.handler) THEN HandlerError
                       ELSE "none"]

\* The calls of done a running verification function makes, in order: a
\* handler that throws ends the run, its exception leaving _verify.
RECURSIVE syncDones(_)
syncDones(ds) ==
  IF ds = << >>
  THEN [calls |-> << >>, thrown |-> "none"]
  ELSE LET c == verifiedFunction(ds[1])
       IN  IF HandlerThrows(c.handler)
           THEN [calls |-> <<c>>, thrown |-> HandlerError]
           ELSE LET rest == syncDones(Tail(ds))
                IN  [calls |-> <<c>> \o rest.calls, thrown |-> rest.thrown]

\* The calls of done a running verification function gets to make of those
\* it set out to make: a handler that throws ends the run.
RECURSIVE madeDones(_)
madeDones(ds) ==
  IF ds = << >>
  THEN << >>
  ELSE IF HandlerThrows(verifiedFunction(ds[1]).handler)
       THEN <<ds[1]>>
       ELSE <<ds[1]>> \o madeDones(Tail(ds))

\* A mutation of the try block: the check of the payload is missing, and a
\* ticket without claims goes on to the profile and the verification function.
tryBlockNoCheck(res, plan) ==
  IF res.kind = "reject"
  THEN [verified |-> FALSE, calls |-> << >>, thrown |-> res.cause]
  ELSE LET run == syncDones(plan.dones)
       IN  [verified |-> TRUE,
            calls    |-> run.calls,
            thrown   |-> IF run.thrown # "none" THEN run.thrown
                         ELSE IF plan.throws THEN VerifyError ELSE "none"]

\* The try block after the await (lines 116-158), for an engine call that
\* settled as res and a verification function behaving as plan: whether
\* _verify was called, the handler invocations made inside the try block and
\* what the block threw ("none": it completed).
tryBlock(res, plan) ==
  IF res.kind = "reject"
  THEN [verified |-> FALSE, calls |-> << >>, thrown |-> res.cause]
  ELSE IF res.kind = "nopayload"
  THEN [verified |-> FALSE, calls |-> << >>, thrown |-> "Error: No payload returned"]
  ELSE LET run == syncDones(plan.dones)
       IN  [verified |-> TRUE,
            calls    |-> run.calls,
            thrown   |-> IF run.thrown # "none" THEN run.thrown
                         ELSE IF plan.throws THEN VerifyError ELSE "none"]

\* The number of calls of done among handler invocations.
DoneCount(calls) == Cardinality({ i \in 1..Len(calls) : calls[i].by = "done" })

\* A mutation of authenticate: a request without a token is rejected by the
\* pipeline itself, this.fail({message: 'Missing token'}), and the engine is
\* not asked.
AuthenticateValidates(a, r) ==
  /\ pc[a] = "idle"
  /\ req' = [req EXCEPT ![a] = r]
  /\ IF LookupThrows(r)
     THEN /\ pc' = [pc EXCEPT ![a] = "done"]
          /\ promise' = [promise EXCEPT ![a] = "rejected"]
          /\ rejection' = [rejection EXCEPT ![a] = "TypeError"]
          /\ UNCHANGED <<engineCalls, handlerCalls>>
     ELSE IF ~Truthy(lookup(r, "id_token"))
     THEN /\ pc' = [pc EXCEPT ![a] = "done"]
          /\ promise' = [promise EXCEPT ![a] = "fulfilled"]
          /\ handlerCalls' = [handlerCalls EXCEPT ![a] =
               Append(@, HandlerCall("fail", fail, <<"Missing token">>,
                                     "lookup", << >>))]
          /\ UNCHANGED <<engineCalls, rejection>>
     ELSE /\ pc' = [pc EXCEPT ![a] = "awaiting"]
          /\ promise' = [promise EXCEPT ![a] = "pending"]
          /\ engineCalls' = [engineCalls EXCEPT ![a] =
               Append(@, [idToken |-> lookup(r, "id_token"),
                          audience |-> clientId])]
          /\ UNCHANGED <<rejection, handlerCalls>>
  /\ handlersAtCall' = [handlersAtCall EXCEPT ![a] = HandlerFields]
  /\ UNCHANGED <<instance, handlers, engineResult, verifyCalls, escaped,
                 doneCalls, thrown>>

\* A mutation of authenticate: the await is missing, so the pipeline goes on
\* with the pending promise as its ticket, ticket.getPayload() throws and the
\* catch clause reports it while the engine call is still pending.
AuthenticateNoAwait(a, r) ==
  /\ pc[a] = "idle"
  /\ req' = [req EXCEPT ![a] = r]
  /\ IF LookupThrows(r)
     THEN /\ pc' = [pc EXCEPT ![a] = "done"]
          /\ promise' = [promise EXCEPT ![a] = "rejected"]
          /\ rejection' = [rejection EXCEPT ![a] = "TypeError"]
          /\ UNCHANGED <<engineCalls, handlerCalls, thrown>>
     ELSE /\ pc' = [pc EXCEPT ![a] = "awaiting"]
          /\ promise' = [promise EXCEPT ![a] =
               IF HandlerThrows(error) THEN "rejected" ELSE "fulfilled"]
          /\ rejection' = [rejection EXCEPT ![a] =
               IF HandlerThrows(error) THEN HandlerError ELSE @]
          /\ engineCalls' = [engineCalls EXCEPT ![a] =
               Append(@, [idToken |-> lookup(r, "id_token"),
                          audience |-> clientId])]
          /\ handlerCalls' = [handlerCalls EXCEPT ![a] =
               Append(@, HandlerCall("error", error, <<"TypeError">>,
                                     "catch", << >>))]
          /\ thrown' = [thrown EXCEPT ![a] = "TypeError"]
  /\ handlersAtCall' = [handlersAtCall EXCEPT ![a] = HandlerFields]
  /\ UNCHANGED <<instance, handlers, engineResult, verifyCalls, escaped,
                 doneCalls>>

\* authenticate(req) up to its await: the lookup, outside the try block, and
\* the call of client.verifyIdToken.  A lookup that throws rejects the
\* promise of the async function.
Authenticate(a, r) ==
  /\ pc[a] = "idle"
  /\ req' = [req EXCEPT ![a] = r]
  /\ IF LookupThrows(r)
     THEN /\ pc' = [pc EXCEPT ![a] = "done"]
          /\ promise' = [promise EXCEPT ![a] = "rejected"]
          /\ rejection' = [rejection EXCEPT ![a] = "TypeError"]
          /\ UNCHANGED engineCalls
     ELSE /\ pc' = [pc EXCEPT ![a] = "awaiting"]
          /\ promise' = [promise EXCEPT ![a] = "pending"]
          /\ engineCalls' = [engineCalls EXCEPT ![a] =
               Append(@, [idToken |-> lookup(r, "id_token"),
                          audience |-> clientId])]
          /\ UNCHANGED rejection
  /\ handlersAtCall' = [handlersAtCall EXCEPT ![a] = HandlerFields]
  /\ UNCHANGED <<instance, handlers, engineResult, verifyCalls, handlerCalls,
                 escaped, doneCalls, thrown>>

\* The engine call settles and authenticate resumes: the rest of the try
\* block and, when it throws, the catch clause.  A throwing error handler in
\* the catch clause rejects the promise.
EngineSettles(a, res, plan) ==
  /\ pc[a] = "awaiting"
  /\ LET t == tryBlock(res, plan)
         caught == t.thrown # "none"
     IN  /\ engineResult' = [engineResult EXCEPT ![a] = res]
         /\ verifyCalls' = [verifyCalls EXCEPT ![a] =
              IF t.verified
              THEN Append(@, verifyArgs(req[a], parseProfile(res.payload)))
              ELSE @]
         /\ handlerCalls' = [handlerCalls EXCEPT ![a] =
              IF caught THEN @ \o t.calls \o <<catchClause(t.thrown)>>
              ELSE @ \o t.calls]
         /\ promise' = [promise EXCEPT ![a] =
              IF caught /\ HandlerThrows(error) THEN "rejected" ELSE "fulfilled"]
         /\ rejection' = [rejection EXCEPT ![a] =
              IF caught /\ HandlerThrows(error) THEN HandlerError ELSE @]
         /\ doneCalls' = [doneCalls EXCEPT ![a] =
              IF t.verified THEN @ \o madeDones(plan.dones) ELSE @]
         /\ thrown' = [thrown EXCEPT ![a] = t.thrown]
  /\ pc' = [pc EXCEPT ![a] = "done"]
  /\ UNCHANGED <<instance, handlers, req, engineCalls, escaped, handlersAtCall>>

\* A mutation of the completion callback: an 'already reported' latch kept on
\* the instance, the three handler fields being reset once an outcome is out.
DoneLaterLatching(a, d) ==
  /\ Len(verifyCalls[a]) > 0
  /\ DoneCount(handlerCalls[a]) < MaxDone
  /\ LET c == verifiedFunction(d)
     IN  /\ handlerCalls' = [handlerCalls EXCEPT ![a] = Append(@, c)]
         /\ escaped' = [escaped EXCEPT ![a] = @ \/ HandlerThrows(c.handler)]
  /\ doneCalls' = [doneCalls EXCEPT ![a] = Append(@, d)]
  /\ error' = "noop"
  /\ fail' = "noop"
  /\ success' = "noop"
  /\ UNCHANGED <<instance, pc, req, engineCalls, engineResult,
                 verifyCalls, promise, rejection, thrown, handlersAtCall>>

\* A mutation of the completion callback: the handlers are captured when
\* authenticate is called, and a later call of done goes to the captured one.
DoneLaterCaptured(a, d) ==
  /\ Len(verifyCalls[a]) > 0
  /\ DoneCount(handlerCalls[a]) < MaxDone
  /\ LET v == verifiedFunction(d)
         c == [v EXCEPT !.handler = handlersAtCall[a][v.kind]]
     IN  /\ handlerCalls' = [handlerCalls EXCEPT ![a] = Append(@, c)]
         /\ escaped' = [escaped EXCEPT ![a] = @ \/ HandlerThrows(c.handler)]
  /\ doneCalls' = [doneCalls EXCEPT ![a] = Append(@, d)]
  /\ UNCHANGED <<instance, handlers, pc, req, engineCalls, engineResult,
                 verifyCalls, promise, rejection, thrown, handlersAtCall>>

\* The verification function calls done after it has returned (from a
\* database callback, a timer): a handler that throws throws into that caller.
DoneLater(a, d) ==
  /\ Len(verifyCalls[a]) > 0
  /\ DoneCount(handlerCalls[a]) < MaxDone
  /\ LET c == verifiedFunction(d)
     IN  /\ handlerCalls' = [handlerCalls EXCEPT ![a] = Append(@, c)]
         /\ escaped' = [escaped EXCEPT ![a] = @ \/ HandlerThrows(c.handler)]
  /\ doneCalls' = [doneCalls EXCEPT ![a] = Append(@, d)]
  /\ UNCHANGED <<instance, handlers, pc, req, engineCalls, engineResult,
                 verifyCalls, promise, rejection, thrown, handlersAtCall>>

\* The host assigns an outcome handler field.
SetHandler(k, h) ==
  /\ \/ k = "error" /\ error' = h /\ UNCHANGED <<fail, success>>
     \/ k = "fail" /\ fail' = h /\ UNCHANGED <<error, success>>
     \/ k = "success" /\ success' = h /\ UNCHANGED <<error, fail>>
  /\ UNCHANGED <<instance, pc, req, engineCalls, engineResult, verifyCalls,
                 handlerCalls, promise, rejection, escaped, doneCalls, thrown,
                 handlersAtCall>>

\* The host registers its three handlers before it starts an attempt.
Register(hs) ==
  /\ \A a \in AttemptIds : pc[a] = "idle"
  /\ error' = hs.error
  /\ fail' = hs.fail
  /\ success' = hs.success
  /\ UNCHANGED <<instance, pc, req, engineCalls, engineResult, verifyCalls,
                 handlerCalls, promise, rejection, escaped, doneCalls, thrown,
                 handlersAtCall>>

\* ------------------------------------------------------ the specifications

\* One attempt on an instance whose handlers were registered beforehand.
Next ==
  \/ \E hs \in HostHandlers : Register(hs)
  \/ \E a \in SeqAttempts, r \in PipelineRequests : Authenticate(a, r)
  \/ \E a \in SeqAttempts :
       /\ pc[a] = "awaiting"
       /\ \E res \in EngineResults, plan \in VerifyPlans :
            EngineSettles(a, res, plan)
  \/ \E a \in SeqAttempts, d \in DoneArgs : DoneLater(a, d)

Spec == Init /\ [][Next]_vars

\* The token lookup of authenticate on every request.
NextLookup == \E a \in SeqAttempts, r \in AllRequests : Authenticate(a, r)

SpecLookup == Init /\ [][NextLookup]_vars

\* The calls of done of the specifications with two attempts or with
\* reassigned handlers: a success and a rejection (errors come from the
\* catch clause).
FewDoneArgs ==
  { [error |-> NULL, user |-> "user1", info |-> UNDEFINED],
    [error |-> NULL, user |-> "false", info |-> "info1"] }

FewPlans == [dones : SeqUpTo(FewDoneArgs, MaxDone), throws : BOOLEAN]

\* The requests of two attempts: one the lookup throws on, two it does not.
ConcRequests == { r \in PipelineRequests : r.kind # "throwingAccessor" }

\* The handlers the host of two attempts registers.
ConcHandlers == { [error |-> "h1", fail |-> "h1", success |-> "h1"] }

\* Two attempts on one instance, in flight together or one after the other,
\* the handlers registered beforehand and not reassigned.
NextConc ==
  \/ \E hs \in ConcHandlers : Register(hs)
  \/ \E a \in AttemptIds, r \in ConcRequests : Authenticate(a, r)
  \/ \E a \in AttemptIds :
       /\ pc[a] = "awaiting"
       /\ \E res \in EngineResults, plan \in FewPlans :
            EngineSettles(a, res, plan)
  \/ \E a \in AttemptIds, d \in FewDoneArgs : DoneLater(a, d)

SpecConc == Init /\ [][NextConc]_vars

\* Every claim set the profile mapper is run on: each optional claim
\* undefined, empty or set.
AllPayloads ==
  { Payload("sub1", n, f, g, e, v, p) :
      n \in {UNDEFINED, "Ann Lee"}, f \in {UNDEFINED, "", "Lee"},
      g \in {UNDEFINED, "", "Ann"}, e \in {UNDEFINED, "", "ann@x"},
      v \in {UNDEFINED, "true", "false"}, p \in {UNDEFINED, "", "pic1"} }

\* A request with a token in its body.
TokenRequest ==
  Request("object", Container("object", "tokB", "forged"), NoContainer,
          NoContainer)

\* A verification function that returns without calling done.
QuietPlan == [dones |-> << >>, throws |-> FALSE]

\* The profile mapper of authenticate on every claim set.
NextProfile ==
  \/ \E a \in SeqAttempts : Authenticate(a, TokenRequest)
  \/ \E a \in SeqAttempts :
       /\ pc[a] = "awaiting"
       /\ \E p \in AllPayloads :
            EngineSettles(a, EngineResult("payload", p, "none"), QuietPlan)

SpecProfile == Init /\ [][NextProfile]_vars

\* The handlers the host assigns while an attempt is in flight, and the
\* fields it assigns them to.
ReassignHandlers == {"noop", "h1"}

HandlerKinds == {"error", "fail", "success"}

\* One attempt on an instance whose handler fields the host reassigns at any
\* time: before the call, while the engine call is pending, after authenticate
\* has returned.
NextReassign ==
  \/ \E k \in HandlerKinds, h \in ReassignHandlers : SetHandler(k, h)
  \/ \E a \in SeqAttempts, r \in ConcRequests : Authenticate(a, r)
  \/ \E a \in SeqAttempts :
       /\ pc[a] = "awaiting"
       /\ \E res \in EngineResults, plan \in FewPlans :
            EngineSettles(a, res, plan)
  \/ \E a \in SeqAttempts, d \in FewDoneArgs : DoneLater(a, d)

SpecReassign == Init /\ [][NextReassign]_vars

\* ---------------------------------------------------------------- the claims

\* The attempts authenticate has been called for.
Called(a) == pc[a] # "idle"

\* The attempt's pipeline has run to its end (the promise is settled).
Ended(a) == pc[a] = "done"

\* The handler invocations of kind k among calls.
OfKind(calls, k) == { i \in 1..Len(calls) : calls[i].kind = k }

\* C1: every call to authenticate causes exactly one invocation of the
\* success, fail and error handlers, whatever the request, the engine and the
\* verification function do: never more than one, and one as soon as the
\* pipeline has ended without handing the outcome to the verification
\* function.
C1_ExactlyOneOutcome ==
  \A a \in AttemptIds :
    /\ Len(handlerCalls[a]) <= 1
    /\ (Ended(a) /\ Len(verifyCalls[a]) = 0) => Len(handlerCalls[a]) = 1

\* C2: when the engine's verifyIdToken call rejects, the error handler is
\* invoked exactly once, by the catch clause, with the engine's failure cause;
\* success and fail are not invoked and the verification function is not
\* called.
C2_EngineFailure ==
  \A a \in AttemptIds :
    engineResult[a].kind = "reject" =>
      /\ Len(handlerCalls[a]) = 1
      /\ handlerCalls[a][1].kind = "error"
      /\ handlerCalls[a][1].by = "catch"
      /\ handlerCalls[a][1].args = <<engineResult[a].cause>>
      /\ Len(verifyCalls[a]) = 0

\* C2's case: an engine call has rejected with its cause and the error handler
\* has been invoked.
C2_Witness ==
  \E a \in AttemptIds :
    /\ engineResult[a].kind = "reject"
    /\ engineResult[a].cause = "engineErr"
    /\ OfKind(handlerCalls[a], "error") # {}

\* C3: when the engine call succeeds but the ticket has no payload, the
\* attempt ends as for an engine failure: the error handler is invoked exactly
\* once, by the catch clause, success and fail are not invoked and the
\* verification function is not called.
C3_NoPayload ==
  \A a \in AttemptIds :
    engineResult[a].kind = "nopayload" =>
      /\ Len(handlerCalls[a]) = 1
      /\ handlerCalls[a][1].kind = "error"
      /\ handlerCalls[a][1].by = "catch"
      /\ handlerCalls[a][1].args = <<"Error: No payload returned">>
      /\ Len(verifyCalls[a]) = 0

\* C3's case: an engine call has resolved with a ticket without payload and
\* the attempt has ended with an error handler invocation.
C3_Witness ==
  \E a \in AttemptIds :
    /\ engineResult[a].kind = "nopayload"
    /\ Ended(a)
    /\ OfKind(handlerCalls[a], "error") # {}

\* C4: every call done(error, user, info) invokes one handler, chosen by the
\* truthiness of error and user: error(error) when error is truthy, whatever
\* user and info are; fail(info) when error and user are falsy;
\* success(user, info) when error is falsy and user truthy.  The handler is
\* the one the field holds and the values reach it unchanged.
C4_DoneDispatch ==
  \A a \in AttemptIds :
    \A i \in 1..Len(handlerCalls[a]) :
      LET c == handlerCalls[a][i]
      IN  c.by = "done" =>
            LET d == c.done[1]
            IN  /\ Truthy(d.error) =>
                     c.kind = "error" /\ c.args = <<d.error>>
                /\ (~Truthy(d.error) /\ ~Truthy(d.user)) =>
                     c.kind = "fail" /\ c.args = <<d.info>>
                /\ (~Truthy(d.error) /\ Truthy(d.user)) =>
                     c.kind = "success" /\ c.args = <<d.user, d.info>>
                /\ c.handler \in HandlerIds

\* C4's case: after a successful engine result the verification function has
\* called done once, with a falsy error, an undefined user and an info, and
\* the attempt's only handler invocation is that call's.
C4_Witness ==
  \E a \in AttemptIds :
    /\ engineResult[a].kind = "payload"
    /\ Len(handlerCalls[a]) = 1
    /\ handlerCalls[a][1].by = "done"
    /\ handlerCalls[a][1].done[1] =
         [error |-> NULL, user |-> UNDEFINED, info |-> "info1"]
    /\ handlerCalls[a][1].kind = "fail"

\* C5: a failure thrown in steps 1-5 of authenticate is caught and reported
\* through the error handler with the thrown cause: the lookup throwing on an
\* unusable request, the engine rejecting, the payload missing.
C5_ThrownIsReported ==
  \A a \in AttemptIds :
    Ended(a) =>
      LET Reported(cause) ==
            \E i \in 1..Len(handlerCalls[a]) :
              /\ handlerCalls[a][i].kind = "error"
              /\ handlerCalls[a][i].by = "catch"
              /\ handlerCalls[a][i].args = <<cause>>
      IN  /\ LookupThrows(req[a]) => Reported("TypeError")
          /\ engineResult[a].kind = "reject" => Reported(engineResult[a].cause)
          /\ engineResult[a].kind = "nopayload" =>
               Reported("Error: No payload returned")

\* C6: nothing propagates past authenticate: the promise it returns never
\* rejects, no exception leaves a handler unhandled, and an attempt that
\* failed has its one outcome handler invocation.
C6_NothingPropagates ==
  \A a \in AttemptIds :
    /\ promise[a] # "rejected"
    /\ ~escaped[a]
    /\ (Ended(a) /\ Len(verifyCalls[a]) = 0) => Len(handlerCalls[a]) = 1

\* The containers of a request in which the field holds a truthy value.
Yields(c) == c.kind = "object" /\ Truthy(c.fields["id_token"])

\* The token an attempt submitted to the engine: the lookup's result.
Located(a) == engineCalls[a][1].idToken

\* C7: the lookup returns the field's value from the first of body, query and
\* headers, in that order, that yields a truthy value, skipping a container
\* that is missing or whose value is falsy; when none does the result is
\* falsy.
C7_FirstTruthy ==
  \A a \in AttemptIds :
    Len(engineCalls[a]) > 0 =>
      LET r == req[a]
      IN  /\ Yields(r.body) => Located(a) = r.body.fields["id_token"]
          /\ (~Yields(r.body) /\ Yields(r.query)) =>
               Located(a) = r.query.fields["id_token"]
          /\ (~Yields(r.body) /\ ~Yields(r.query) /\ Yields(r.headers)) =>
               Located(a) = r.headers.fields["id_token"]
          /\ (~Yields(r.body) /\ ~Yields(r.query) /\ ~Yields(r.headers)) =>
               ~Truthy(Located(a))

\* C7's case: the body holds an empty id_token, the query is missing and the
\* lookup has returned the token of the headers.
C7_Witness ==
  \E a \in AttemptIds :
    /\ Len(engineCalls[a]) > 0
    /\ req[a].body.kind = "object"
    /\ req[a].body.fields["id_token"] = ""
    /\ req[a].query.kind = "null"
    /\ Located(a) = "tokH"

\* The field is present in the container, whatever its value.
Present(c) == c.kind = "object" /\ c.fields["id_token"] # UNDEFINED

PresentInAll(r) == Present(r.body) /\ Present(r.query) /\ Present(r.headers)

\* C8 as stated: when id_token is present in body, query and headers at once,
\* whatever the three values are (an empty string in the body included), the
\* lookup returns the body's value.
C8_BodyWhateverItsValue ==
  \A a \in AttemptIds :
    (Len(engineCalls[a]) > 0 /\ PresentInAll(req[a])) =>
      Located(a) = req[a].body.fields["id_token"]

\* C8 as amended: when id_token is present in body, query and headers at once
\* and the body's value is truthy, the lookup returns the body's value,
\* whatever the other two are.
C8_BodyPriority ==
  \A a \in AttemptIds :
    (Len(engineCalls[a]) > 0 /\ PresentInAll(req[a]) /\ Yields(req[a].body)) =>
      Located(a) = req[a].body.fields["id_token"]

\* C8's case: all three containers hold a token and the lookup has returned
\* the body's.
C8_Witness ==
  \E a \in AttemptIds :
    /\ Len(engineCalls[a]) > 0
    /\ Yields(req[a].body) /\ Yields(req[a].query) /\ Yields(req[a].headers)
    /\ Located(a) = "tokB"

\* The strategy was constructed with passReqToCallback: true.
WithRequest == options.hasFlag /\ options.passReqToCallback = "true"

ProfileArg(a) == verifyCalls[a][1][Len(verifyCalls[a][1]) - 1]

\* C11: the profile handed to the verification function is a function of the
\* claims the engine returned and of nothing in the request: its subject and
\* raw claims are the engine's, two attempts for which the engine returned the
\* same claims get the same profile whatever their requests hold, and an
\* attempt for which the engine returned no claims has no call of the
\* verification function and no success outcome.
C11_ProfileFromClaimsOnly ==
  /\ \A a \in AttemptIds :
       /\ Len(verifyCalls[a]) > 0 =>
            /\ engineResult[a].kind = "payload"
            /\ ProfileArg(a).id = engineResult[a].payload.sub
            /\ ProfileArg(a)._json = engineResult[a].payload
       /\ engineResult[a].kind # "payload" =>
            /\ Len(verifyCalls[a]) = 0
            /\ OfKind(handlerCalls[a], "success") = {}
  /\ \A a, b \in AttemptIds :
       ( /\ Len(verifyCalls[a]) > 0
         /\ Len(verifyCalls[b]) > 0
         /\ engineResult[a].payload = engineResult[b].payload )
       => ProfileArg(a) = ProfileArg(b)

\* C11's case: two attempts whose requests differ, one carrying a sub field of
\* its own, for which the engine returned the same claims, both handed to the
\* verification function.
C11_Witness ==
  /\ req["a1"] # req["a2"]
  /\ Guarded(req["a1"].body, "sub") = "forged"
  /\ Len(verifyCalls["a1"]) > 0
  /\ Len(verifyCalls["a2"]) > 0
  /\ engineResult["a1"].payload = engineResult["a2"].payload

\* A claim is lacking: undefined or empty, which is what parseProfile tests.
Lacking(v) == ~Truthy(v)

\* C12: for every claim set the emails list and the photos list of the
\* profile have zero or one entries: emails is empty when the email claim is
\* lacking and otherwise holds the one entry of the email claim with the
\* email_verified claim as its flag; photos is empty when the picture claim is
\* lacking and otherwise holds the one entry of the picture claim.  No entry
\* has an undefined value.
C12_EmailsAndPhotos ==
  \A a \in AttemptIds :
    Len(verifyCalls[a]) > 0 =>
      LET p == engineResult[a].payload
          profile == ProfileArg(a)
      IN  /\ Len(profile.emails) <= 1
          /\ Len(profile.photos) <= 1
          /\ Lacking(p.email) => profile.emails = << >>
          /\ ~Lacking(p.email) =>
               profile.emails =
                 << [value |-> p.email, verified |-> p.email_verified] >>
          /\ Lacking(p.picture) => profile.photos = << >>
          /\ ~Lacking(p.picture) => profile.photos = << [value |-> p.picture] >>
          /\ \A i \in 1..Len(profile.emails) :
               profile.emails[i].value # UNDEFINED
          /\ \A i \in 1..Len(profile.photos) :
               profile.photos[i].value # UNDEFINED

\* C12's case: claims without email and with a picture have been mapped to a
\* profile with no email entry and one photo.
C12_Witness ==
  \E a \in AttemptIds :
    /\ Len(verifyCalls[a]) > 0
    /\ engineResult[a].payload.email = UNDEFINED
    /\ engineResult[a].payload.picture = "pic1"
    /\ ProfileArg(a).emails = << >>
    /\ Len(ProfileArg(a).photos) = 1

\* C13: with both family_name and given_name in the claims the profile's name
\* holds both; with only one of them the name is set, holds that one and
\* leaves the other unset; with neither the name is unset.
C13_StructuredName ==
  \A a \in AttemptIds :
    Len(verifyCalls[a]) > 0 =>
      LET f == engineResult[a].payload.family_name
          g == engineResult[a].payload.given_name
          name == ProfileArg(a).name
      IN  /\ (Truthy(f) /\ Truthy(g)) =>
               name.defined /\ name.familyName = f /\ name.givenName = g
          /\ (Truthy(f) /\ ~Truthy(g)) =>
               /\ name.defined
               /\ name.familyName = f
               /\ ~Truthy(name.givenName)
          /\ (~Truthy(f) /\ Truthy(g)) =>
               /\ name.defined
               /\ name.givenName = g
               /\ ~Truthy(name.familyName)
          /\ (~Truthy(f) /\ ~Truthy(g)) => ~name.defined

\* C13's case: claims with a family name and no given name have been mapped
\* to a profile whose name holds the family name alone.
C13_Witness ==
  \E a \in AttemptIds :
    /\ Len(verifyCalls[a]) > 0
    /\ engineResult[a].payload.family_name = "Lee"
    /\ engineResult[a].payload.given_name = UNDEFINED
    /\ ProfileArg(a).name.defined
    /\ ProfileArg(a).name.givenName = UNDEFINED

\* C14 as stated: every call to authenticate submits exactly one verification
\* request to the engine, with the lookup's value for id_token and the
\* clientID of the construction as audience, and no fail outcome comes from
\* the pipeline itself.
C14_EveryCallSubmits ==
  \A a \in AttemptIds :
    Called(a) =>
      /\ Len(engineCalls[a]) = 1
      /\ engineCalls[a][1].audience = options.clientID
      /\ \A i \in OfKind(handlerCalls[a], "fail") : handlerCalls[a][i].by = "done"

\* C14 as amended: a call to authenticate whose lookup returns submits exactly
\* one verification request, with the lookup's value for id_token, falsy when
\* no token was located, and the clientID of the construction as audience; a
\* call whose lookup throws submits none.  No fail outcome comes from the
\* pipeline itself: every fail is a call of done by the verification function.
C14_OneEngineRequest ==
  \A a \in AttemptIds :
    Called(a) =>
      /\ IF LookupThrows(req[a])
         THEN Len(engineCalls[a]) = 0
         ELSE /\ Len(engineCalls[a]) = 1
              /\ Located(a) = lookup(req[a], "id_token")
              /\ ( ~Yields(req[a].body) /\ ~Yields(req[a].query)
                   /\ ~Yields(req[a].headers) ) => ~Truthy(Located(a))
              /\ engineCalls[a][1].audience = options.clientID
      /\ \A i \in OfKind(handlerCalls[a], "fail") : handlerCalls[a][i].by = "done"

\* C14's case: no token was located, the falsy value went to the engine with
\* the audience, and the attempt ended in the engine's rejection.
C14_Witness ==
  \E a \in AttemptIds :
    /\ ~LookupThrows(req[a])
    /\ Len(engineCalls[a]) = 1
    /\ ~Truthy(Located(a))
    /\ engineCalls[a][1].audience = "client2"
    /\ engineResult[a].kind = "reject"
    /\ OfKind(handlerCalls[a], "error") # {}

\* C15: the engine call gates everything after it: while an attempt's engine
\* call is pending its promise is pending, the verification function has not
\* been called, done has not been called and no outcome handler has been
\* invoked; an attempt has an outcome only once its engine call has settled,
\* so an engine call that never settles leaves the attempt without outcome.
C15_EngineGates ==
  \A a \in AttemptIds :
    /\ pc[a] = "awaiting" =>
         /\ Len(engineCalls[a]) = 1
         /\ engineResult[a] = NoResult
         /\ promise[a] = "pending"
         /\ Len(verifyCalls[a]) = 0
         /\ Len(doneCalls[a]) = 0
         /\ Len(handlerCalls[a]) = 0
    /\ (Len(handlerCalls[a]) > 0 \/ Len(verifyCalls[a]) > 0) =>
         engineResult[a] # NoResult

\* C15's case: an attempt with registered handlers is suspended in its engine
\* call, without outcome.
C15_Witness ==
  \E a \in AttemptIds :
    /\ pc[a] = "awaiting"
    /\ error = "h1"
    /\ Len(engineCalls[a]) = 1
    /\ Len(handlerCalls[a]) = 0

\* Everything the model holds of one attempt.
AttemptState(a) ==
  <<pc[a], req[a], engineCalls[a], engineResult[a], verifyCalls[a],
    handlerCalls[a], promise[a], rejection[a], escaped[a], doneCalls[a],
    thrown[a]>>

\* The handler invocations of an attempt made by done, in order.
ByDone(calls) == SelectSeq(calls, LAMBDA c : c.by = "done")

\* The handler invocations of an attempt made by the catch clause, in order.
ByCatch(calls) == SelectSeq(calls, LAMBDA c : c.by = "catch")

\* The outcome of an attempt is the one its own inputs produce: _verify got
\* the profile of the attempt's claims and, when asked for, the attempt's
\* request; each of its calls of done invoked the handler that call selects;
\* and the catch clause reported what the attempt's own try block threw.
OwnOutcome(a) ==
  /\ Len(verifyCalls[a]) > 0 =>
       /\ Len(verifyCalls[a]) = 1
       /\ engineResult[a].kind = "payload"
       /\ ProfileArg(a).id = engineResult[a].payload.sub
       /\ ProfileArg(a)._json = engineResult[a].payload
       /\ Len(verifyCalls[a][1]) = IF WithRequest THEN 5 ELSE 4
       /\ WithRequest => verifyCalls[a][1][1] = req[a]
  /\ Len(ByDone(handlerCalls[a])) = Len(doneCalls[a])
  /\ \A i \in 1..Len(doneCalls[a]) :
       LET c == ByDone(handlerCalls[a])[i]
           d == doneCalls[a][i]
       IN  /\ c.done = <<d>>
           /\ c.kind = IF Truthy(d.error) THEN "error"
                       ELSE IF Truthy(d.user) THEN "success" ELSE "fail"
  /\ ByCatch(handlerCalls[a]) =
       IF thrown[a] = "none" THEN << >>
       ELSE << HandlerCall("error", error, <<thrown[a]>>, "catch", << >>) >>
  /\ engineResult[a].kind = "reject" => thrown[a] = engineResult[a].cause
  /\ engineResult[a].kind = "nopayload" =>
       thrown[a] = "Error: No payload returned"
  /\ engineResult[a].kind = "payload" =>
       thrown[a] \in {"none", VerifyError, HandlerError}

\* A step of one attempt leaves everything of the other attempts as it was.
OwnStep ==
  \A a, b \in AttemptIds :
    (a # b /\ AttemptState(a)' # AttemptState(a)) =>
      AttemptState(b)' = AttemptState(b)

\* C16: two attempts in flight on one instance do not interfere, whatever the
\* order of their engine completions and calls of done: each attempt's
\* verification function gets the profile of its own claims and its own
\* request, each attempt's outcome is the one its own inputs produce, and no
\* step of one attempt changes anything of the other.
C16_NoInterference ==
  /\ [] (\A a \in AttemptIds : OwnOutcome(a))
  /\ [][OwnStep]_vars

\* C16's case: two attempts with different requests and different claims on
\* an instance that passes the request, one ended in success and the other
\* in fail.
C16_Witness ==
  /\ WithRequest
  /\ req["a1"] # req["a2"]
  /\ engineResult["a1"].kind = "payload"
  /\ engineResult["a2"].kind = "payload"
  /\ engineResult["a1"].payload # engineResult["a2"].payload
  /\ OfKind(handlerCalls["a1"], "success") # {}
  /\ OfKind(handlerCalls["a2"], "fail") # {}

\* The configuration is the one the constructor stored.
ConfigAsConstructed ==
  /\ clientId = options.clientID
  /\ _passReqToCallback = ConstructFlag(options)
  /\ _verify = "verifyFn"

\* A step of the pipeline: something of an attempt changes.
PipelineStep == \E a \in AttemptIds : AttemptState(a)' # AttemptState(a)

\* C17: authenticate keeps no state across requests: through any sequence of
\* authenticate calls, whatever their outcomes, clientId, the
\* passReqToCallback flag and the stored verification function are the ones
\* the constructor stored, and no step of an attempt changes them or the
\* three handler fields.
C17_NoCrossRequestState ==
  /\ [] ConfigAsConstructed
  /\ [][PipelineStep => UNCHANGED <<instance, handlers>>]_vars

\* C17's case: two attempts have ended, one in an error and one with a call of
\* done, and the handlers are still the registered ones.
C17_Witness ==
  /\ Ended("a1")
  /\ Ended("a2")
  /\ Len(ByCatch(handlerCalls["a1"])) = 1
  /\ Len(doneCalls["a2"]) > 0
  /\ HandlerFields = [error |-> "h1", fail |-> "h1", success |-> "h1"]
  /\ ConfigAsConstructed

\* C18: the pipeline keeps no 'already reported' state: every call of done
\* invokes one handler, so k calls of done cause k handler invocations, in the
\* order of the calls, and the only other invocation is the catch clause's
\* when the try block threw; a verification function that returned without
\* calling done and without throwing has caused none.
C18_EveryDoneDispatches ==
  \A a \in AttemptIds :
    /\ Len(ByDone(handlerCalls[a])) = Len(doneCalls[a])
    /\ \A i \in 1..Len(doneCalls[a]) :
         i <= Len(ByDone(handlerCalls[a])) =>
           ByDone(handlerCalls[a])[i].done = <<doneCalls[a][i]>>
    /\ Len(handlerCalls[a]) =
         Len(doneCalls[a]) + (IF thrown[a] = "none" THEN 0 ELSE 1)
    /\ ( /\ Len(verifyCalls[a]) > 0
         /\ Len(doneCalls[a]) = 0
         /\ thrown[a] = "none" ) => Len(handlerCalls[a]) = 0

\* C18's case: a verification function has called done twice, once while it
\* ran and once later, and two handlers have been invoked.
C18_Witness ==
  \E a \in AttemptIds :
    /\ Len(doneCalls[a]) = 2
    /\ thrown[a] = "none"
    /\ Len(handlerCalls[a]) = 2
    /\ handlerCalls[a][1].kind = "success"
    /\ handlerCalls[a][2].kind = "fail"

\* The handler invocations a step adds to an attempt.
Dispatched(a) ==
  SubSeq(handlerCalls[a]', Len(handlerCalls[a]) + 1, Len(handlerCalls[a]'))

\* C19: the handlers are looked up on the instance when an outcome is
\* dispatched: every handler invocation a step makes, from done or from the
\* catch clause, goes to the handler the field of its kind holds at that
\* step, whatever the field held when authenticate was called.
C19_HandlerAtDispatch ==
  [][\A a \in AttemptIds :
       \A i \in 1..Len(Dispatched(a)) :
         Dispatched(a)[i].handler = HandlerFields[Dispatched(a)[i].kind]]_vars

\* C19's case: the success field was reassigned while the attempt was in
\* flight, and the outcome went to the new handler, not the one the field
\* held when authenticate was called.
C19_Witness ==
  /\ Len(handlerCalls["a1"]) > 0
  /\ handlerCalls["a1"][1].kind = "success"
  /\ handlerCalls["a1"][1].handler = "h1"
  /\ handlersAtCall["a1"].success = "noop"
  /\ success = "h1"

====
